---- MODULE Spec2Model ----
(***************************************************************************)
(* LinkPatrol crawl-and-validate pipeline: walkers, testers, the results   *)
(* cache with its consumer loop, and the WaitAndClose coordinator.         *)
(*                                                                         *)
(* URLs are records {scheme, host, path, frag}: the string                 *)
(* "https://site/a#top" is [scheme |-> "https", host |-> "site",           *)
(* path |-> <<"a">>, frag |-> "#top"]; path is the list of segments after  *)
(* splitting on "/" (a trailing "/" leaves a last segment "").  Two Go     *)
(* strings are equal iff their records are equal.                         *)
(***************************************************************************)
EXTENDS Integers, Sequences, FiniteSets, TLC

\* The largest config.Concurrency tried: the number of walker goroutines and
\* of tester goroutines.
N == 2

\* Buffer size of toWalkChan, toTestChan and resultsChan.  The program uses
\* 100 (internal/app/app.go:31-33); the model scales the three buffers down.
QueueCap == 2

Walkers == 1..N
Testers == 1..N

----------------------------------------------------------------------------
\* URL strings

U(scheme, host, path, frag) ==
    [scheme |-> scheme, host |-> host, path |-> path, frag |-> frag]

\* The empty string "".
EmptyURL == U("", "", <<>>, "")

\* config.Target of the crawled site: "https://site".
Seed == U("https", "site", <<>>, "")

PageA == U("https", "site", <<"a">>, "")
PageB == U("https", "site", <<"b">>, "")
PageAdmin == U("https", "site", <<"wp-admin", "">>, "")
ExtX == U("https", "other", <<"x">>, "")
ExtXHttp == U("http", "other", <<"x">>, "")
\* "HTTPS://other/x": the same URL with its scheme written in capitals.
ExtXUpper == U("HTTPS", "other", <<"x">>, "")

\* Candidate strings as they appear in page bodies.
RelA == U("", "", <<"a">>, "")
RelB == U("", "", <<"b">>, "")
RelAdmin == U("", "", <<"wp-admin", "">>, "")
RelJpgA == U("", "", <<"a.jpg">>, "")
RelJpgB == U("", "", <<"b.jpg">>, "")
RelHtml == U("", "", <<"p.html">>, "")
RelDot == U("", "", <<"v1.">>, "")
\* "other/x": no scheme, so url.Parse takes it all as a path.
BareX == U("", "", <<"other", "x">>, "")
FragTop == U("", "", <<>>, "#top")
FragNone == U("", "", <<>>, "#none")
FragBare == U("", "", <<>>, "#")

\* CacheEntryStatus
Live == "Live"
Timeout == "Timeout"
Dead == "Dead"
Bot == "Bot"
Ignore == "Ignore"

CacheEntry(url, status, error) == [URL |-> url, Status |-> status, Error |-> error]

WalkerRequest(path, basePath) == [Path |-> path, BasePath |-> basePath]

NoRequest == WalkerRequest(EmptyURL, EmptyURL)
NoEntry == CacheEntry(EmptyURL, Ignore, "")

----------------------------------------------------------------------------
\* The crawled site: what the HTTP servers answer.

\* The outcome of one request: err is "" (a response arrived), "timeout",
\* "refused" or "canceled" (the request's context is done), or "wait" (the
\* limiter's Wait returned the context's error and no request was sent);
\* code is the HTTP status; links are the matches of the regex catalog on the
\* body, in match order, a match being a URL string or a srcset value;
\* ids are the values X of id="X" in the body.
\* looseIds are the values X of id='X' or id=X in the body.
Response(err, code, links, ids) ==
    [err |-> err, code |-> code, links |-> links, ids |-> ids, looseIds |-> {}]

WithLooseIds(resp, looseIds) == [resp EXCEPT !.looseIds = looseIds]

WaitCancelled == Response("wait", 0, <<>>, {})
RequestCancelled == Response("canceled", 0, <<>>, {})

\* A srcset attribute value "url1 descriptor1, url2 descriptor2, ...".
Srcset(urls) == [srcset |-> urls]
IsSrcset(match) == "srcset" \in DOMAIN match

SiteIds == {1, 2}

\* The responses a GET of url can get on site s.  Site 1 has a page with more
\* same-host links than a channel buffers, one of them to a banned path;
\* site 2 has the same external link on two pages.
Responses(s, url) ==
    IF s = 1 THEN
        IF url = Seed THEN {Response("", 200, <<RelA, RelB, RelA, RelAdmin>>, {})}
        ELSE IF url = PageA THEN {Response("", 200, <<RelA>>, {})}
        ELSE IF url = PageB THEN {Response("", 404, <<>>, {}), Response("refused", 0, <<>>, {})}
        ELSE {Response("refused", 0, <<>>, {})}
    ELSE
        IF url = Seed THEN {Response("", 200, <<RelA, ExtX>>, {})}
        ELSE IF url = PageA THEN {Response("", 200, <<ExtX>>, {})}
        ELSE IF url = ExtX THEN
            {Response("", 200, <<>>, {}), Response("", 403, <<>>, {}),
             Response("timeout", 0, <<>>, {})}
        ELSE {Response("refused", 0, <<>>, {})}

----------------------------------------------------------------------------
\* net/url and strings helpers on the record form of a string

\* url.Parse(s).Scheme: the scheme in lower case.
ParsedScheme(u) == IF u.scheme = "HTTPS" THEN "https" ELSE u.scheme

\* strings.HasPrefix(s, "#")
HasHashPrefix(s) == s.scheme = "" /\ s.host = "" /\ s.path = <<>> /\ s.frag # ""

\* The text after the last "." of a path segment, NoDot when it has no ".".
NoDot == "<no dot>"
SegExt(seg) ==
    CASE seg = "a.jpg" -> "jpg"
      [] seg = "b.jpg" -> "jpg"
      [] seg = "p.html" -> "html"
      [] seg = "wp-login.php" -> "php"
      [] seg = "v1." -> ""
      [] OTHER -> NoDot

\* A banned list without "/wp-admin/".
ContainsBannedNoAdmin(s) ==
    \E i \in 1..Len(s.path) :
        \/ s.path[i] = "cdn-cgi" /\ i < Len(s.path)
        \/ s.path[i] = "wp-login.php"

\* strings.Contains(s, banned) for some banned in bannedPaths: "/cdn-cgi/"
\* and "/wp-admin/" are a segment followed by a "/", "/wp-login.php" is the
\* start of a segment.
ContainsBanned(s) ==
    \E i \in 1..Len(s.path) :
        \/ s.path[i] \in {"cdn-cgi", "wp-admin"} /\ i < Len(s.path)
        \/ s.path[i] = "wp-login.php"

\* base.ResolveReference(ref) for a ref without host (an absolute-path or an
\* empty-path reference).
ResolveReference(base, ref) ==
    U(ParsedScheme(base), base.host, IF ref.path = <<>> THEN base.path ELSE ref.path, ref.frag)

\* The closure "allowed" of IsSameDomain.
Allowed(u) ==
    \/ u.path = <<>>
    \/ u.path[Len(u.path)] = ""
    \/ SegExt(u.path[Len(u.path)]) = NoDot
    \/ SegExt(u.path[Len(u.path)]) # ""

IsSameDomain(target, baseUrl) ==
    IF HasHashPrefix(target) THEN FALSE
    ELSE IF ~Allowed(target) THEN FALSE
    ELSE IF target.host = "" THEN TRUE
    ELSE target.host = baseUrl.host

----------------------------------------------------------------------------
\* ResultsCache

HasResult(data, url) == url \in DOMAIN data

\* TryClaim without its "already processed" check.
TryClaimUnlessClaimed(data, claimed, url) == url \notin claimed

\* The test of TryClaim: neither processed nor claimed.
TryClaim(data, claimed, url) == url \notin DOMAIN data /\ url \notin claimed

\* A consumer loop that keeps the entry a URL already has.
PutDataIfAbsent(data, result) ==
    [u \in DOMAIN data \cup {result.URL} |-> IF u \in DOMAIN data THEN data[u] ELSE result]

\* A consumer loop that forgets to delete the claim.
PutClaimedKept(claimed, result) == claimed

\* The body of the consumer loop: the new ResultsData and ClaimedURLs.
PutData(data, result) ==
    [u \in DOMAIN data \cup {result.URL} |-> IF u = result.URL THEN result ELSE data[u]]

\* A consumer loop that drops every claim with each result.
PutClaimedAll(claimed, result) == {}

PutClaimed(claimed, result) == claimed \ {result.URL}

HasFailures(data) == \E u \in DOMAIN data : data[u].Status = Dead \/ data[u].Status = Timeout

----------------------------------------------------------------------------
\* Walker: what walkUrl sends after a GET

\* A pending channel send of a worker: ch is "walk", "test" or "res".
ToWalk(req) == [ch |-> "walk", req |-> req, entry |-> NoEntry]
ToTest(req) == [ch |-> "test", req |-> req, entry |-> NoEntry]
ToResults(entry) == [ch |-> "res", req |-> NoRequest, entry |-> entry]

\* A walkUrl without seenUrls: every match is routed.
SkipDuplicatesNever(matches, seenUrls) == matches

\* The seenUrls filter: the candidates in match order, each once.
RECURSIVE SkipDuplicates(_, _)
SkipDuplicates(matches, seenUrls) ==
    IF matches = <<>> THEN <<>>
    ELSE IF Head(matches) \in seenUrls THEN SkipDuplicates(Tail(matches), seenUrls)
    ELSE <<Head(matches)>> \o SkipDuplicates(Tail(matches), seenUrls \cup {Head(matches)})

\* toTest.Path + matchedUrl for a matchedUrl "#X".
AppendFragment(page, fragment) == U(page.scheme, page.host, page.path, fragment.frag)

\* processFoundUrl: the one send a candidate causes.  ids are the values X
\* of id="X" in the body; the walker looks for id="#X", the candidate
\* itself between the quotes.
processFoundUrl(matchedUrl, toTest, ids, targetBaseUrl) ==
    IF IsSameDomain(matchedUrl, targetBaseUrl) THEN
        ToWalk(WalkerRequest(
            IF matchedUrl.host = "" /\ toTest.BasePath # EmptyURL
            THEN ResolveReference(toTest.BasePath, matchedUrl) ELSE matchedUrl,
            toTest.BasePath))
    ELSE IF HasHashPrefix(matchedUrl) /\ matchedUrl.frag \in ids THEN
        ToResults(CacheEntry(AppendFragment(toTest.Path, matchedUrl), Live, ""))
    ELSE ToTest(WalkerRequest(matchedUrl, toTest.BasePath))

\* err.Error() of a failed transport.
TransportErrorText(err) ==
    CASE err = "timeout" -> "context deadline exceeded"
      [] err = "canceled" -> "context canceled"
      [] OTHER -> "connection refused"

\* The strings processFoundUrl is called with: the matches in order, a srcset
\* value replaced by the URLs of its entries (processSrcsetUrls).
RECURSIVE Candidates(_)
Candidates(matches) ==
    IF matches = <<>> THEN <<>>
    ELSE (IF IsSrcset(Head(matches)) THEN Head(matches).srcset ELSE <<Head(matches)>>)
            \o Candidates(Tail(matches))

\* A walkUrl that routes the candidates first and publishes Live last.
walkUrlLiveLast(toTest, resp, targetBaseUrl) ==
    IF resp.err = "wait" THEN <<>>
    ELSE IF resp.err # "" THEN
        <<ToResults(CacheEntry(toTest.Path, Dead, TransportErrorText(resp.err)))>>
    ELSE LET found == SkipDuplicates(Candidates(resp.links), {})
         IN [i \in 1..Len(found) |->
                processFoundUrl(found[i], toTest, resp.ids, targetBaseUrl)]
            \o <<ToResults(CacheEntry(toTest.Path, Live, ""))>>

\* walkUrl: the sends caused by the outcome resp of the limiter and of
\* GET toTest.Path.  The walker does not look at the status code.
walkUrl(toTest, resp, targetBaseUrl) ==
    IF resp.err = "wait" THEN <<>>
    ELSE IF resp.err # "" THEN
        <<ToResults(CacheEntry(toTest.Path, Dead, TransportErrorText(resp.err)))>>
    ELSE LET found == SkipDuplicates(Candidates(resp.links), {})
         IN <<ToResults(CacheEntry(toTest.Path, Live, ""))>> \o
            [i \in 1..Len(found) |->
                processFoundUrl(found[i], toTest, resp.ids, targetBaseUrl)]

----------------------------------------------------------------------------
\* Tester

\* A Go error value: nil, or an error with its text and its Timeout().
NilError == [nil |-> TRUE, text |-> "", timeout |-> FALSE]
GoError(text, timeout) == [nil |-> FALSE, text |-> text, timeout |-> timeout]

\* fmt.Errorf("HTTP %d", resp.StatusCode)
HttpErrorText(code) ==
    CASE code = 403 -> "HTTP 403"
      [] code = 404 -> "HTTP 404"
      [] code = 429 -> "HTTP 429"
      [] code = 999 -> "HTTP 999"
      [] OTHER -> "HTTP 4xx/5xx"

\* PingUrl on the response resp: the error it returns.
PingUrl(resp) ==
    IF resp.err = "wait" THEN GoError("context canceled", FALSE)
    ELSE IF resp.err # "" THEN GoError(TransportErrorText(resp.err), resp.err = "timeout")
    ELSE IF resp.code >= 400 THEN GoError(HttpErrorText(resp.code), FALSE)
    ELSE NilError

\* strings.Replace(path, "https://", "http://", 1): the match is by case.
HttpURL(path) ==
    IF path.scheme = "https" THEN U("http", path.host, path.path, path.frag) ELSE path

\* A fallback that reports its success under the URL it was given.
PingUrlWithFallbackSamePath(path, first, second) ==
    LET err == PingUrl(first)
    IN IF err.nil THEN [url |-> path, err |-> NilError]
       ELSE IF ParsedScheme(path) = "https" /\ PingUrl(second).nil
            THEN [url |-> path, err |-> NilError]
       ELSE [url |-> path, err |-> err]

\* A fallback that, both pings having failed, returns the error of the http
\* ping.
PingUrlWithFallbackLastError(path, first, second) ==
    LET err == PingUrl(first)
    IN IF err.nil THEN [url |-> path, err |-> NilError]
       ELSE IF ParsedScheme(path) = "https" /\ PingUrl(second).nil
            THEN [url |-> HttpURL(path), err |-> NilError]
       ELSE IF ParsedScheme(path) = "https" THEN [url |-> path, err |-> PingUrl(second)]
       ELSE [url |-> path, err |-> err]

\* PingUrlWithFallback: first is the response to path, second the response
\* to the http URL (used only when the fallback is tried).
PingUrlWithFallback(path, first, second) ==
    LET err == PingUrl(first)
    IN IF err.nil THEN [url |-> path, err |-> NilError]
       ELSE IF ParsedScheme(path) = "https" /\ PingUrl(second).nil
            THEN [url |-> HttpURL(path), err |-> NilError]
       ELSE [url |-> path, err |-> err]

\* A classification that takes a timeout for a slow but reachable link and
\* keeps its error text.
TestEntryTimeoutLive(finalURL, err) ==
    IF ~err.nil THEN
        IF err.timeout THEN CacheEntry(finalURL, Live, err.text)
        ELSE CacheEntry(finalURL, Dead, err.text)
    ELSE CacheEntry(finalURL, Live, "")

\* The classification at the end of Test.
TestEntry(finalURL, err) ==
    IF ~err.nil THEN
        IF err.timeout THEN CacheEntry(finalURL, Timeout, err.text)
        ELSE CacheEntry(finalURL, Dead, err.text)
    ELSE CacheEntry(finalURL, Live, "")

\* "https://" + resolvedURL for a string that parses without scheme.
PrependHttps(u) ==
    IF u.host = "" /\ u.path # <<>> THEN U("https", Head(u.path), Tail(u.path), u.frag)
    ELSE U("https", u.host, u.path, u.frag)

\* The URL Test pings for requestData.
ResolvedURL(requestData) ==
    LET resolved == IF requestData.Path.host = "" /\ requestData.BasePath # EmptyURL
                    THEN ResolveReference(requestData.BasePath, requestData.Path)
                    ELSE requestData.Path
    IN IF resolved.scheme = "" THEN PrependHttps(resolved) ELSE resolved

\* strings.TrimPrefix(fragment, "#")
TrimHash(fragment) ==
    CASE fragment.frag = "#" -> ""
      [] fragment.frag = "#top" -> "top"
      [] fragment.frag = "#none" -> "none"
      [] OTHER -> fragment.frag

\* A fragment check that does not look at the status of the base page.
checkFragmentOnPageAnyStatus(fragment, resp) ==
    IF TrimHash(fragment) = "" THEN CacheEntry(fragment, Live, "")
    ELSE IF resp.err # "" THEN CacheEntry(fragment, Dead, "Could not fetch base page to check fragment")
    ELSE IF TrimHash(fragment) \in resp.ids \cup resp.looseIds THEN CacheEntry(fragment, Live, "")
    ELSE CacheEntry(fragment, Dead, "Element with id not found on page")

\* checkFragmentOnPage: the entry sent for fragment, resp being the response
\* to GET basePage (not requested when the fragment is a bare "#").
checkFragmentOnPage(fragment, resp) ==
    IF TrimHash(fragment) = "" THEN CacheEntry(fragment, Live, "")
    ELSE IF resp.err # "" THEN CacheEntry(fragment, Dead, "Could not fetch base page to check fragment")
    ELSE IF resp.code >= 400 THEN CacheEntry(fragment, Dead, "Base page returned HTTP status")
    ELSE IF TrimHash(fragment) \in resp.ids \cup resp.looseIds THEN CacheEntry(fragment, Live, "")
    ELSE CacheEntry(fragment, Dead, "Element with id not found on page")

\* Test after the cache check: the entry it sends for requestData, first
\* being the outcome of the first request (the GET of the base page for a
\* fragment, else the first ping) and second that of the fallback ping.
Test(requestData, first, second) ==
    IF HasHashPrefix(requestData.Path) THEN
        IF requestData.BasePath # EmptyURL
        THEN checkFragmentOnPage(requestData.Path, first)
        ELSE CacheEntry(requestData.Path, Dead,
                        "Fragment URL with no base page to check against")
    ELSE LET r == PingUrlWithFallback(ResolvedURL(requestData), first, second)
         IN TestEntry(r.url, r.err)

\* The URLs t.client.Do is called with by PingUrlWithFallback, in order.
PingRequests(path, first, second) ==
    (IF first.err = "wait" THEN <<>> ELSE <<path>>) \o
    (IF ~PingUrl(first).nil /\ ParsedScheme(path) = "https" /\ second.err # "wait"
     THEN <<HttpURL(path)>> ELSE <<>>)

\* The URLs Test requests, in order.
TestRequests(requestData, first, second) ==
    IF HasHashPrefix(requestData.Path) THEN
        IF requestData.BasePath # EmptyURL /\ TrimHash(requestData.Path) # ""
        THEN <<requestData.BasePath>> ELSE <<>>
    ELSE PingRequests(ResolvedURL(requestData), first, second)

\* The outcomes of a walker's limiter and GET of url on site s: client.Get
\* carries no context, the limiter's Wait fails only when ctx is done (c).
WalkOutcomes(s, url, c) == Responses(s, url) \cup (IF c THEN {WaitCancelled} ELSE {})

\* The outcomes of a ping of url: with ctx done the limiter's Wait or the
\* request itself fails.
PingOutcomes(s, url, c) == IF c THEN {WaitCancelled, RequestCancelled} ELSE Responses(s, url)

\* The entries Test can send for requestData on site s, one per way the
\* requests can go.
TestOutcomes(s, requestData, c) ==
    IF HasHashPrefix(requestData.Path) THEN
        {Test(requestData, first, first) : first \in Responses(s, requestData.BasePath)}
    ELSE {Test(requestData, first, second) :
             first \in PingOutcomes(s, ResolvedURL(requestData), c),
             second \in PingOutcomes(s, HttpURL(ResolvedURL(requestData)), c)}

----------------------------------------------------------------------------
\* State

VARIABLES
    site,           \* which site the servers serve
    target,         \* config.Target, also WorkerPool.baseUrl and Walker.targetBaseUrl
    concurrency,    \* config.Concurrency: goroutines 1..concurrency are started
    toWalkChan,     \* buffered channels: the queued messages
    toTestChan,
    resultsChan,
    closed,         \* the channels close() was called on
    ResultsData,    \* ResultsCache.ResultsData
    ClaimedURLs,    \* ResultsCache.ClaimedURLs
    activeWalkers,
    activeTesters,
    wpc, wreq, wout,    \* walker goroutines: position, toTest, sends still to do
    tpc, treq, tout,    \* tester goroutines
    cpc, cheld,         \* the DoLoop goroutine and the result it has received
    pc,                 \* App.Run / WaitAndClose
    idleObs,            \* the IsIdle results of WaitAndClose's current iteration
    runErr,             \* what Run returned: "" is nil
    panicked,           \* a goroutine panicked: the process is gone
    claimWins,          \* per URL, the TryClaim calls that returned true
    walkGets,           \* per URL, the GETs issued by walkers
    cancelled,          \* ctx of Run is done
    call,               \* a single call of Walker.walkUrl or Tester.Test: its inputs
    ret,                \* what that call sent, and the requests it made
    rateLimitValue,     \* config.Rate
    domainLimiters,     \* WorkerPool.domainLimiters: key -> limiter
    tokens,             \* the limiters created so far: the tokens each holds
    lpc, lreq, llim,    \* goroutines making a request: position, request, limiter
    sent,               \* per host, the requests sent in the current second
    returned            \* per key, the limiters GetDomainLimiter has returned

chans == <<toWalkChan, toTestChan, resultsChan>>
cache == <<ResultsData, ClaimedURLs>>
wvars == <<wpc, wreq, wout, activeWalkers>>
tvars == <<tpc, treq, tout, activeTesters>>
cvars == <<cpc, cheld>>
rvars == <<pc, idleObs, runErr>>
logs == <<claimWins, walkGets>>
conf == <<site, target, concurrency>>
unit == <<call, ret>>
lvars == <<rateLimitValue, domainLimiters, tokens, lpc, lreq, llim, sent, returned>>

vars == <<conf, chans, closed, cache, wvars, tvars, cvars, rvars, panicked, logs,
          cancelled, unit, lvars>>

Count(f, k) == IF k \in DOMAIN f THEN f[k] ELSE 0
Incr(f, k) == [x \in DOMAIN f \cup {k} |-> IF x = k THEN Count(f, k) + 1 ELSE f[x]]

Chan(ch) == CASE ch = "walk" -> toWalkChan [] ch = "test" -> toTestChan [] OTHER -> resultsChan

\* The process is running: no panic, and Run has not returned to main.
Alive == ~panicked /\ pc # "returned"

\* Goroutines that make requests through the limiters.
Callers == 1..N

\* The requests to one host, and the keys GetDomainLimiter is called with
\* for them: walkUrl passes toTest.BasePath (the seed URL), PingUrl passes
\* u.Host.
Hosts == {"site"}
NoLimiterRequest == [kind |-> "none", key |-> "", host |-> ""]
LimiterRequests ==
    {[kind |-> "walkUrl", key |-> "https://site", host |-> "site"],
     [kind |-> "PingUrl", key |-> "site", host |-> "site"],
     [kind |-> "checkFragmentOnPage", key |-> "", host |-> "site"]}

\* A limiter is named by the key it was created for and the goroutine whose
\* call created it; wp.defaultRateLimiter, rate.NewLimiter(rate.Inf, 0), is
\* created by NewWorkerPool.
DefaultRateLimiter == <<"", 0>>

\* The registry and the limiters right after NewWorkerPool.
InitLimiters ==
    /\ domainLimiters = <<>> /\ tokens = <<>>
    /\ lpc = [c \in Callers |-> "idle"]
    /\ lreq = [c \in Callers |-> NoLimiterRequest]
    /\ llim = [c \in Callers |-> DefaultRateLimiter]
    /\ sent = [h \in Hosts |-> 0]
    /\ returned = <<>>

\* No single call under way.
NoCall == [fn |-> "none"]
NoReturn == [sends |-> <<>>, requests |-> <<>>, returned |-> FALSE]

\* The pool, the cache and Run right after app.New.
InitPipeline ==
    /\ toWalkChan = <<>> /\ toTestChan = <<>> /\ resultsChan = <<>>
    /\ closed = {}
    /\ ResultsData = <<>> /\ ClaimedURLs = {}
    /\ activeWalkers = 0 /\ activeTesters = 0
    /\ wpc = [w \in Walkers |-> "idle"]
    /\ wreq = [w \in Walkers |-> NoRequest]
    /\ wout = [w \in Walkers |-> <<>>]
    /\ tpc = [t \in Testers |-> "idle"]
    /\ treq = [t \in Testers |-> NoRequest]
    /\ tout = [t \in Testers |-> <<>>]
    /\ cpc = "recv" /\ cheld = NoEntry
    /\ pc = "start" /\ idleObs = <<>> /\ runErr = ""
    /\ panicked = FALSE
    /\ claimWins = <<>> /\ walkGets = <<>>
    /\ cancelled = FALSE
    /\ InitLimiters

\* The limiter only delays a request while ctx is not done, so the steps
\* of the pipeline do not depend on the rate.
Init ==
    /\ site \in SiteIds
    /\ target \in {Seed, EmptyURL}
    /\ concurrency \in 1..N
    /\ rateLimitValue = 0
    /\ InitPipeline
    /\ call = NoCall /\ ret = NoReturn

----------------------------------------------------------------------------
\* A channel send by a worker: the message m goes on its channel when the
\* buffer has room; the send blocks while it is full.
Send(m) ==
    /\ m.ch \notin closed
    /\ Len(Chan(m.ch)) < QueueCap
    /\ toWalkChan' = IF m.ch = "walk" THEN Append(toWalkChan, m.req) ELSE toWalkChan
    /\ toTestChan' = IF m.ch = "test" THEN Append(toTestChan, m.req) ELSE toTestChan
    /\ resultsChan' = IF m.ch = "res" THEN Append(resultsChan, m.entry) ELSE resultsChan

----------------------------------------------------------------------------
\* Which of the goroutines blocked in the same receive gets the message (or
\* sees the close first) is the runtime's choice.  The waiting goroutines of a
\* kind are interchangeable (same code, no state of their own while idle), so
\* the choice is written as "the lowest-numbered waiting one".
FirstWaiting(i, pcs) == pcs[i] = "idle" /\ \A j \in 1..(i - 1) : pcs[j] # "idle"

----------------------------------------------------------------------------
\* Walker goroutines (startWalkers, Walker.Walk)

\* case toTest, ok := <-wp.toWalkChan with ok true
WalkerReceive(w) ==
    /\ Alive /\ w <= concurrency /\ FirstWaiting(w, wpc) /\ toWalkChan # <<>>
    /\ wreq' = [wreq EXCEPT ![w] = Head(toWalkChan)]
    /\ toWalkChan' = Tail(toWalkChan)
    /\ wpc' = [wpc EXCEPT ![w] = "received"]
    /\ UNCHANGED <<conf, cancelled, unit, lvars, toTestChan, resultsChan, closed, cache, wout, activeWalkers,
                   tvars, cvars, rvars, panicked, logs>>

\* the receive with ok false: the channel is closed and drained
WalkerExit(w) ==
    /\ Alive /\ w <= concurrency /\ FirstWaiting(w, wpc) /\ toWalkChan = <<>> /\ "walk" \in closed
    /\ wpc' = [wpc EXCEPT ![w] = "exited"]
    /\ UNCHANGED <<conf, cancelled, unit, lvars, chans, closed, cache, wreq, wout, activeWalkers,
                   tvars, cvars, rvars, panicked, logs>>

\* w.activeWalkers.Add(1)
WalkerEnter(w) ==
    /\ Alive /\ wpc[w] = "received"
    /\ activeWalkers' = activeWalkers + 1
    /\ wpc' = [wpc EXCEPT ![w] = "walk"]
    /\ UNCHANGED <<conf, cancelled, unit, lvars, chans, closed, cache, wreq, wout,
                   tvars, cvars, rvars, panicked, logs>>

\* TryClaim, the banned-path check and walkUrl up to the GET's response.
\* "refused" and "banned" are the two early returns of Walk, "abandoned" the
\* return of walkUrl on the limiter's error.
Walk(w) ==
    /\ Alive /\ wpc[w] = "walk"
    /\ IF ~TryClaim(ResultsData, ClaimedURLs, wreq[w].Path) THEN
            /\ wpc' = [wpc EXCEPT ![w] = "refused"]
            /\ UNCHANGED <<ClaimedURLs, wout, logs>>
       ELSE /\ ClaimedURLs' = ClaimedURLs \cup {wreq[w].Path}
            /\ claimWins' = Incr(claimWins, wreq[w].Path)
            /\ IF ContainsBanned(wreq[w].Path) THEN
                    /\ wpc' = [wpc EXCEPT ![w] = "banned"]
                    /\ UNCHANGED <<wout, walkGets>>
               ELSE /\ walkGets' = Incr(walkGets, wreq[w].Path)
                    /\ \E resp \in WalkOutcomes(site, wreq[w].Path, cancelled) :
                          /\ wout' = [wout EXCEPT ![w] = walkUrl(wreq[w], resp, target)]
                          /\ wpc' = [wpc EXCEPT ![w] =
                                        IF resp.err = "wait" THEN "abandoned" ELSE "send"]
    /\ UNCHANGED <<conf, cancelled, unit, lvars, chans, closed, ResultsData, wreq, activeWalkers,
                   tvars, cvars, rvars, panicked>>

\* the next channel send of walkUrl / processFoundUrl
WalkerSend(w) ==
    /\ Alive /\ wpc[w] = "send"
    /\ Send(Head(wout[w]))
    /\ wout' = [wout EXCEPT ![w] = Tail(wout[w])]
    /\ wpc' = [wpc EXCEPT ![w] = IF Tail(wout[w]) = <<>> THEN "done" ELSE "send"]
    /\ UNCHANGED <<conf, cancelled, unit, lvars, closed, cache, wreq, activeWalkers,
                   tvars, cvars, rvars, panicked, logs>>

\* the send finds its channel closed: panic
WalkerSendClosed(w) ==
    /\ Alive /\ wpc[w] = "send"
    /\ Head(wout[w]).ch \in closed
    /\ panicked' = TRUE
    /\ UNCHANGED <<conf, cancelled, unit, lvars, chans, closed, cache, wvars, tvars, cvars, rvars, logs>>

\* A Walk whose Add(-1) is its last statement instead of a deferred call:
\* the early returns skip it.
WalkerReturnNoDefer(w) ==
    /\ Alive /\ wpc[w] \in {"refused", "banned", "abandoned", "done"}
    /\ activeWalkers' = IF wpc[w] = "done" THEN activeWalkers - 1 ELSE activeWalkers
    /\ wpc' = [wpc EXCEPT ![w] = "idle"]
    /\ wreq' = [wreq EXCEPT ![w] = NoRequest]
    /\ UNCHANGED <<conf, cancelled, unit, lvars, chans, closed, cache, wout,
                   tvars, cvars, rvars, panicked, logs>>

\* return from Walk: the deferred w.activeWalkers.Add(-1)
WalkerReturn(w) ==
    /\ Alive /\ wpc[w] \in {"refused", "banned", "abandoned", "done"}
    /\ activeWalkers' = activeWalkers - 1
    /\ wpc' = [wpc EXCEPT ![w] = "idle"]
    /\ wreq' = [wreq EXCEPT ![w] = NoRequest]
    /\ UNCHANGED <<conf, cancelled, unit, lvars, chans, closed, cache, wout,
                   tvars, cvars, rvars, panicked, logs>>

----------------------------------------------------------------------------
\* Tester goroutines (startTesters, Tester.Test)

TesterReceive(t) ==
    /\ Alive /\ t <= concurrency /\ FirstWaiting(t, tpc) /\ toTestChan # <<>>
    /\ treq' = [treq EXCEPT ![t] = Head(toTestChan)]
    /\ toTestChan' = Tail(toTestChan)
    /\ tpc' = [tpc EXCEPT ![t] = "received"]
    /\ UNCHANGED <<conf, cancelled, unit, lvars, toWalkChan, resultsChan, closed, cache, wvars, tout, activeTesters,
                   cvars, rvars, panicked, logs>>

TesterExit(t) ==
    /\ Alive /\ t <= concurrency /\ FirstWaiting(t, tpc) /\ toTestChan = <<>> /\ "test" \in closed
    /\ tpc' = [tpc EXCEPT ![t] = "exited"]
    /\ UNCHANGED <<conf, cancelled, unit, lvars, chans, closed, cache, wvars, treq, tout, activeTesters,
                   cvars, rvars, panicked, logs>>

\* t.activeCount.Add(1)
TesterEnter(t) ==
    /\ Alive /\ tpc[t] = "received"
    /\ activeTesters' = activeTesters + 1
    /\ tpc' = [tpc EXCEPT ![t] = "test"]
    /\ UNCHANGED <<conf, cancelled, unit, lvars, chans, closed, cache, wvars, treq, tout,
                   cvars, rvars, panicked, logs>>

\* the cache check ("cached" is its early return), then the requests of Test
\* up to the entry to send
TesterTest(t) ==
    /\ Alive /\ tpc[t] = "test"
    /\ IF HasResult(ResultsData, treq[t].Path) THEN
            /\ tpc' = [tpc EXCEPT ![t] = "cached"]
            /\ UNCHANGED tout
       ELSE /\ \E entry \in TestOutcomes(site, treq[t], cancelled) :
                  tout' = [tout EXCEPT ![t] = <<ToResults(entry)>>]
            /\ tpc' = [tpc EXCEPT ![t] = "send"]
    /\ UNCHANGED <<conf, cancelled, unit, lvars, chans, closed, cache, wvars, treq, activeTesters,
                   cvars, rvars, panicked, logs>>

\* t.resultsChan <- entry
TesterSend(t) ==
    /\ Alive /\ tpc[t] = "send"
    /\ Send(Head(tout[t]))
    /\ tout' = [tout EXCEPT ![t] = Tail(tout[t])]
    /\ tpc' = [tpc EXCEPT ![t] = "done"]
    /\ UNCHANGED <<conf, cancelled, unit, lvars, closed, cache, wvars, treq, activeTesters,
                   cvars, rvars, panicked, logs>>

TesterSendClosed(t) ==
    /\ Alive /\ tpc[t] = "send"
    /\ Head(tout[t]).ch \in closed
    /\ panicked' = TRUE
    /\ UNCHANGED <<conf, cancelled, unit, lvars, chans, closed, cache, wvars, tvars, cvars, rvars, logs>>

\* return from Test: the deferred t.activeCount.Add(-1)
TesterReturn(t) ==
    /\ Alive /\ tpc[t] \in {"cached", "done"}
    /\ activeTesters' = activeTesters - 1
    /\ tpc' = [tpc EXCEPT ![t] = "idle"]
    /\ treq' = [treq EXCEPT ![t] = NoRequest]
    /\ UNCHANGED <<conf, cancelled, unit, lvars, chans, closed, cache, wvars, tout,
                   cvars, rvars, panicked, logs>>

----------------------------------------------------------------------------
\* The consumer goroutine of ResultsCache.DoLoop

\* A consumer that takes the newest entry of the channel instead of the
\* oldest.
ConsumerReceiveNewest ==
    /\ Alive /\ cpc = "recv" /\ resultsChan # <<>>
    /\ cheld' = resultsChan[Len(resultsChan)]
    /\ resultsChan' = SubSeq(resultsChan, 1, Len(resultsChan) - 1)
    /\ cpc' = "put"
    /\ UNCHANGED <<conf, cancelled, unit, lvars, toWalkChan, toTestChan, closed, cache, wvars, tvars,
                   rvars, panicked, logs>>

\* for result := range c.ResultsChan: the receive
ConsumerReceive ==
    /\ Alive /\ cpc = "recv" /\ resultsChan # <<>>
    /\ cheld' = Head(resultsChan)
    /\ resultsChan' = Tail(resultsChan)
    /\ cpc' = "put"
    /\ UNCHANGED <<conf, cancelled, unit, lvars, toWalkChan, toTestChan, closed, cache, wvars, tvars,
                   rvars, panicked, logs>>

\* the loop body, under ResultsMutex
ConsumerPut ==
    /\ Alive /\ cpc = "put"
    /\ ResultsData' = PutData(ResultsData, cheld)
    /\ ClaimedURLs' = PutClaimed(ClaimedURLs, cheld)
    /\ cheld' = NoEntry
    /\ cpc' = "recv"
    /\ UNCHANGED <<conf, cancelled, unit, lvars, chans, closed, wvars, tvars, rvars, panicked, logs>>

\* the range ends: resultsChan is closed and drained
ConsumerExit ==
    /\ Alive /\ cpc = "recv" /\ resultsChan = <<>> /\ "res" \in closed
    /\ cpc' = "exited"
    /\ UNCHANGED <<conf, cancelled, unit, lvars, chans, closed, cache, wvars, tvars, cheld, rvars, panicked, logs>>

----------------------------------------------------------------------------
\* App.Run, WorkerPool.WaitAndClose, App.runNormalMode

IsIdle ==
    /\ activeWalkers = 0 /\ activeTesters = 0
    /\ Len(toTestChan) = 0 /\ Len(toWalkChan) = 0 /\ Len(resultsChan) = 0

\* A polling loop that breaks on the first idle observation.
WaitAndCloseNextNoRecheck(p, idle) == IF idle THEN "closeTest" ELSE "poll"

\* The polling loop of WaitAndClose: where it goes from position p ("poll" is
\* the first IsIdle of an iteration, "recheck" the one after the 100 ms
\* sleep) when IsIdle returned idle.
WaitAndCloseNext(p, idle) ==
    IF p = "poll" THEN IF idle THEN "recheck" ELSE "poll"
    ELSE IF idle THEN "closeTest" ELSE "poll"

\* The IsIdle results of the current iteration of the loop: an iteration
\* that does not break ends in the 10 ms sleep and the next starts afresh.
Observe(p, obs, idle) ==
    IF WaitAndCloseNext(p, idle) = "poll" THEN <<>> ELSE Append(obs, idle)

\* Run with an empty target: workers and consumer are started, then the
\* error is returned.
RunNoTarget ==
    /\ Alive /\ pc = "start" /\ target = EmptyURL
    /\ pc' = "returned"
    /\ runErr' = "no target URL specified"
    /\ UNCHANGED <<conf, cancelled, unit, lvars, chans, closed, cache, wvars, tvars, cvars, idleObs, panicked, logs>>

\* Run: Start, DoLoop, SendURLs(target)
RunStart ==
    /\ Alive /\ pc = "start" /\ target # EmptyURL
    /\ toWalkChan' = Append(toWalkChan, WalkerRequest(target, target))
    /\ pc' = "poll"
    /\ UNCHANGED <<conf, cancelled, unit, lvars, toTestChan, resultsChan, closed, cache, wvars, tvars, cvars,
                   idleObs, runErr, panicked, logs>>

\* one IsIdle call of WaitAndClose and the branch taken on it
WaitAndClosePoll ==
    /\ Alive /\ pc \in {"poll", "recheck"}
    /\ idleObs' = Observe(pc, idleObs, IsIdle)
    /\ pc' = WaitAndCloseNext(pc, IsIdle)
    /\ UNCHANGED <<conf, cancelled, unit, lvars, chans, closed, cache, wvars, tvars, cvars, runErr, panicked, logs>>

\* close(wp.toTestChan); close(wp.toWalkChan); close(wp.resultsChan)
CloseTest ==
    /\ Alive /\ pc = "closeTest"
    /\ closed' = closed \cup {"test"}
    /\ pc' = "closeWalk"
    /\ UNCHANGED <<conf, cancelled, unit, lvars, chans, cache, wvars, tvars, cvars, idleObs, runErr, panicked, logs>>

CloseWalk ==
    /\ Alive /\ pc = "closeWalk"
    /\ closed' = closed \cup {"walk"}
    /\ pc' = "closeResults"
    /\ UNCHANGED <<conf, cancelled, unit, lvars, chans, cache, wvars, tvars, cvars, idleObs, runErr, panicked, logs>>

\* the last close; WaitAndClose returns
CloseResults ==
    /\ Alive /\ pc = "closeResults"
    /\ closed' = closed \cup {"res"}
    /\ pc' = "report"
    /\ UNCHANGED <<conf, cancelled, unit, lvars, chans, cache, wvars, tvars, cvars, idleObs, runErr, panicked, logs>>

\* runNormalMode after WaitAndClose: PrettyPrint, then the HasFailures scan
\* (it reads the map without the mutex, while the consumer may still run)
\* and the error value built from it
RunReport ==
    /\ Alive /\ pc = "report"
    /\ runErr' = IF HasFailures(ResultsData) THEN "link check failed" ELSE ""
    /\ pc' = "return"
    /\ UNCHANGED <<conf, cancelled, unit, lvars, chans, closed, cache, wvars, tvars, cvars, idleObs, panicked, logs>>

\* the logging of the counts, then the return of runNormalMode and of Run
RunReturn ==
    /\ Alive /\ pc = "return"
    /\ pc' = "returned"
    /\ UNCHANGED <<conf, cancelled, unit, lvars, chans, closed, cache, wvars, tvars, cvars, idleObs, runErr,
                   panicked, logs>>

----------------------------------------------------------------------------
Next ==
    \/ \E w \in Walkers :
          \/ WalkerReceive(w) \/ WalkerExit(w) \/ WalkerEnter(w) \/ Walk(w)
          \/ WalkerSend(w) \/ WalkerSendClosed(w) \/ WalkerReturn(w)
    \/ \E t \in Testers :
          \/ TesterReceive(t) \/ TesterExit(t) \/ TesterEnter(t) \/ TesterTest(t)
          \/ TesterSend(t) \/ TesterSendClosed(t) \/ TesterReturn(t)
    \/ ConsumerReceive \/ ConsumerPut \/ ConsumerExit
    \/ RunNoTarget \/ RunStart \/ WaitAndClosePoll
    \/ CloseTest \/ CloseWalk \/ CloseResults \/ RunReport \/ RunReturn

Spec == Init /\ [][Next]_vars

----------------------------------------------------------------------------
\* Cancellation of the context passed to Run

\* The caller of Run cancels ctx: before Run starts or at any point of the
\* crawl.
Cancel ==
    /\ Alive /\ ~cancelled
    /\ cancelled' = TRUE
    /\ UNCHANGED <<conf, chans, closed, cache, wvars, tvars, cvars, rvars, panicked, logs,
                   unit, lvars>>

\* case <-ctx.Done() of a walker goroutine's select: return.  The goroutine
\* exists once Run has called Start; with a request in the queue as well
\* the select may take either case.
WalkerCtxDone(w) ==
    /\ Alive /\ cancelled /\ pc # "start"
    /\ w <= concurrency /\ FirstWaiting(w, wpc)
    /\ wpc' = [wpc EXCEPT ![w] = "exited"]
    /\ UNCHANGED <<conf, cancelled, unit, lvars, chans, closed, cache, wreq, wout, activeWalkers,
                   tvars, cvars, rvars, panicked, logs>>

\* case <-ctx.Done() of a tester goroutine's select: return.
TesterCtxDone(t) ==
    /\ Alive /\ cancelled /\ pc # "start"
    /\ t <= concurrency /\ FirstWaiting(t, tpc)
    /\ tpc' = [tpc EXCEPT ![t] = "exited"]
    /\ UNCHANGED <<conf, cancelled, unit, lvars, chans, closed, cache, wvars, treq, tout, activeTesters,
                   cvars, rvars, panicked, logs>>

CancelNext ==
    \/ Next
    \/ Cancel
    \/ \E w \in Walkers : WalkerCtxDone(w)
    \/ \E t \in Testers : TesterCtxDone(t)

CancelSpec == Init /\ [][CancelNext]_vars

----------------------------------------------------------------------------
\* The domain limiter registry and the requests made through it

\* Largest configured rate (requests per second and host).
MaxRate == 1

\* Bucket capacity of a domain limiter.
Burst == 5

\* Requests counted per host and second; the count stops there.
MaxSent == MaxRate + Burst + 1

Min(a, b) == IF a < b THEN a ELSE b

\* m[k] = v, the other keys kept.
MapPut(m, k, v) == [x \in DOMAIN m \cup {k} |-> IF x = k THEN v ELSE m[x]]

\* The limiters GetDomainLimiter has returned for key k.
ReturnedFor(k) == IF k \in DOMAIN returned THEN returned[k] ELSE {}

\* The GET to host h goes out.
SendRequest(h) == [sent EXCEPT ![h] = Min(MaxSent, @ + 1)]

\* checkFragmentOnPage fetches the base page with client.Get, without a
\* limiter.
FragmentGet(c) ==
    /\ lpc[c] = "idle"
    /\ \E r \in {q \in LimiterRequests : q.kind = "checkFragmentOnPage"} :
          sent' = SendRequest(r.host)
    /\ UNCHANGED <<conf, chans, closed, cache, wvars, tvars, cvars, rvars, panicked, logs,
                   cancelled, unit, rateLimitValue, domainLimiters, tokens, lpc, lreq, llim,
                   returned>>

\* walkUrl or PingUrl calls GetDomainLimiter, which runs up to RUnlock: the
\* default limiter when the rate is 0, else the lookup under the read lock.
GetDomainLimiterLookup(c) ==
    /\ lpc[c] = "idle"
    /\ \E r \in {q \in LimiterRequests : q.kind # "checkFragmentOnPage"} :
          /\ lreq' = [lreq EXCEPT ![c] = r]
          /\ IF rateLimitValue = 0
                THEN /\ llim' = [llim EXCEPT ![c] = DefaultRateLimiter]
                     /\ lpc' = [lpc EXCEPT ![c] = "allow"]
                ELSE IF r.key \in DOMAIN domainLimiters
                       THEN /\ llim' = [llim EXCEPT ![c] = domainLimiters[r.key]]
                            /\ lpc' = [lpc EXCEPT ![c] = "touch"]
                       ELSE /\ lpc' = [lpc EXCEPT ![c] = "create"]
                            /\ UNCHANGED llim
    /\ UNCHANGED <<conf, chans, closed, cache, wvars, tvars, cvars, rvars, panicked, logs,
                   cancelled, unit, rateLimitValue, domainLimiters, tokens, sent, returned>>

\* GetDomainLimiter after a miss: under the write lock a new limiter is
\* created, stored under the key and returned.
GetDomainLimiterCreate(c) ==
    /\ lpc[c] = "create"
    /\ LET limiter == <<lreq[c].key, c>> IN
          /\ tokens' = MapPut(tokens, limiter, Burst)
          /\ domainLimiters' = MapPut(domainLimiters, lreq[c].key, limiter)
          /\ llim' = [llim EXCEPT ![c] = limiter]
          /\ returned' = MapPut(returned, lreq[c].key,
                                ReturnedFor(lreq[c].key) \cup {limiter})
    /\ lpc' = [lpc EXCEPT ![c] = "allow"]
    /\ UNCHANGED <<conf, chans, closed, cache, wvars, tvars, cvars, rvars, panicked, logs,
                   cancelled, unit, rateLimitValue, lreq, sent>>

\* GetDomainLimiter after a hit: lastUsed is set under the write lock and
\* the limiter found by the lookup is returned.
GetDomainLimiterTouch(c) ==
    /\ lpc[c] = "touch"
    /\ returned' = MapPut(returned, lreq[c].key, ReturnedFor(lreq[c].key) \cup {llim[c]})
    /\ lpc' = [lpc EXCEPT ![c] = "allow"]
    /\ UNCHANGED <<conf, chans, closed, cache, wvars, tvars, cvars, rvars, panicked, logs,
                   cancelled, unit, rateLimitValue, domainLimiters, tokens, lreq, llim,
                   sent>>

\* domainLimiter.Allow(): with a token the request goes out at once, else
\* the caller goes on to Wait; the default limiter (rate.Inf) allows every
\* request.  A limiter created with a negative rate starts with its 5
\* tokens like any other and, golang.org/x/time/rate turning a limit of 0
\* or less into no refill, refuses once they are spent.
LimiterAllow(c) ==
    /\ lpc[c] = "allow"
    /\ \/ /\ IF llim[c] = DefaultRateLimiter THEN TRUE ELSE tokens[llim[c]] > 0
          /\ tokens' = IF llim[c] = DefaultRateLimiter THEN tokens
                       ELSE [tokens EXCEPT ![llim[c]] = @ - 1]
          /\ sent' = SendRequest(lreq[c].host)
          /\ lpc' = [lpc EXCEPT ![c] = "idle"]
          /\ lreq' = [lreq EXCEPT ![c] = NoLimiterRequest]
          /\ llim' = [llim EXCEPT ![c] = DefaultRateLimiter]
       \/ /\ llim[c] # DefaultRateLimiter /\ tokens[llim[c]] = 0
          /\ lpc' = [lpc EXCEPT ![c] = "wait"]
          /\ UNCHANGED <<tokens, sent, lreq, llim>>
    /\ UNCHANGED <<conf, chans, closed, cache, wvars, tvars, cvars, rvars, panicked, logs,
                   cancelled, unit, rateLimitValue, domainLimiters, returned>>

\* domainLimiter.Wait(ctx) returns once a token is there, and the request
\* goes out.
LimiterWait(c) ==
    /\ lpc[c] = "wait"
    /\ tokens[llim[c]] > 0
    /\ tokens' = [tokens EXCEPT ![llim[c]] = @ - 1]
    /\ sent' = SendRequest(lreq[c].host)
    /\ lpc' = [lpc EXCEPT ![c] = "idle"]
    /\ lreq' = [lreq EXCEPT ![c] = NoLimiterRequest]
    /\ llim' = [llim EXCEPT ![c] = DefaultRateLimiter]
    /\ UNCHANGED <<conf, chans, closed, cache, wvars, tvars, cvars, rvars, panicked, logs,
                   cancelled, unit, rateLimitValue, domainLimiters, returned>>

\* A second passes: every limiter gains rateLimitValue tokens up to its
\* capacity (none for a negative rate), and a new window starts.
Tick ==
    /\ tokens' = [i \in DOMAIN tokens |->
                    Min(Burst, tokens[i] + (IF rateLimitValue > 0 THEN rateLimitValue ELSE 0))]
    /\ sent' = [h \in Hosts |-> 0]
    /\ UNCHANGED <<conf, chans, closed, cache, wvars, tvars, cvars, rvars, panicked, logs,
                   cancelled, unit, rateLimitValue, domainLimiters, lpc, lreq, llim,
                   returned>>

LimiterInit ==
    /\ site = 1 /\ target = Seed /\ concurrency = N
    /\ rateLimitValue \in 0..MaxRate
    /\ InitPipeline
    /\ call = NoCall /\ ret = NoReturn

LimiterNext ==
    \/ \E c \in Callers :
          \/ FragmentGet(c) \/ GetDomainLimiterLookup(c) \/ GetDomainLimiterCreate(c)
          \/ GetDomainLimiterTouch(c) \/ LimiterAllow(c) \/ LimiterWait(c)
    \/ Tick

LimiterSpec == LimiterInit /\ [][LimiterNext]_vars

\* The registry used by the single worker of --concurrency 1, the rate
\* (--rate, config.Rate, an int nothing validates) negative, 0 or positive.
RateInit ==
    /\ site = 1 /\ target = Seed /\ concurrency = 1
    /\ rateLimitValue \in (0 - MaxRate)..MaxRate
    /\ InitPipeline
    /\ call = NoCall /\ ret = NoReturn

\* The worker of --concurrency 1.
OneCaller == {1}

RateNext ==
    \/ \E c \in OneCaller :
          \/ FragmentGet(c) \/ GetDomainLimiterLookup(c) \/ GetDomainLimiterCreate(c)
          \/ GetDomainLimiterTouch(c) \/ LimiterAllow(c) \/ LimiterWait(c)
    \/ Tick

RateSpec == RateInit /\ [][RateNext]_vars

----------------------------------------------------------------------------
\* Single calls of Walker.walkUrl and Tester.Test on chosen inputs

\* Outcomes of a ping.
UnitPings ==
    {Response("", 200, <<>>, {}), Response("", 404, <<>>, {}), Response("", 403, <<>>, {}),
     Response("timeout", 0, <<>>, {}), Response("refused", 0, <<>>, {}),
     WaitCancelled, RequestCancelled}

\* Outcomes of the GET of a fragment's base page (client.Get, no limiter and
\* no context).
UnitBasePages ==
    {Response("", 200, <<>>, {"top"}), Response("", 200, <<>>, {}),
     WithLooseIds(Response("", 200, <<>>, {}), {"top"}),
     Response("", 404, <<>>, {"top"}), Response("refused", 0, <<>>, {})}

\* Outcomes of the limiter and GET of walkUrl.
UnitBodies ==
    {Response("", code, links, ids) :
        code \in {200, 404},
        links \in {<<>>, <<RelA, RelA>>, <<RelJpgA>>, <<Srcset(<<RelJpgA, RelJpgB>>), RelJpgA>>,
                   <<FragTop>>, <<FragNone, FragTop>>, <<ExtX, RelHtml, RelDot>>},
        ids \in {{}, {"top"}, {"#top"}}}
    \cup {Response("refused", 0, <<>>, {}), Response("timeout", 0, <<>>, {}), WaitCancelled}

\* A done context stays done: after a cancelled first ping the second is
\* cancelled too.
Feasible(first, second) ==
    first.err \in {"wait", "canceled"} => second.err \in {"wait", "canceled"}

UnitCalls ==
    {[fn |-> "walkUrl", toTest |-> WalkerRequest(path, Seed), resp |-> resp] :
        path \in {Seed, PageA}, resp \in UnitBodies}
    \cup {c \in {[fn |-> "Test", requestData |-> WalkerRequest(path, base),
                  first |-> first, second |-> second] :
                    path \in {ExtX, ExtXUpper, ExtXHttp, BareX}, base \in {Seed, EmptyURL},
                    first \in UnitPings, second \in UnitPings} :
            Feasible(c.first, c.second)}
    \cup {[fn |-> "Test", requestData |-> WalkerRequest(path, base), first |-> first,
           second |-> first] :
        path \in {FragTop, FragNone, FragBare}, base \in {Seed, EmptyURL},
        first \in UnitBasePages}

UnitInit ==
    /\ site = 1 /\ target = Seed /\ concurrency = 1 /\ rateLimitValue = 0
    /\ InitPipeline
    /\ call \in UnitCalls /\ ret = NoReturn

\* walkUrl runs on call.toTest with the outcome call.resp.
CallWalkUrl ==
    /\ call.fn = "walkUrl" /\ ~ret.returned
    /\ ret' = [sends |-> walkUrl(call.toTest, call.resp, target),
               requests |-> IF call.resp.err = "wait" THEN <<>> ELSE <<call.toTest.Path>>,
               returned |-> TRUE]
    /\ UNCHANGED <<conf, chans, closed, cache, wvars, tvars, cvars, rvars, panicked, logs,
                   cancelled, call, lvars>>

\* Test (past its cache check) runs on call.requestData.
CallTest ==
    /\ call.fn = "Test" /\ ~ret.returned
    /\ ret' = [sends |-> <<ToResults(Test(call.requestData, call.first, call.second))>>,
               requests |-> TestRequests(call.requestData, call.first, call.second),
               returned |-> TRUE]
    /\ UNCHANGED <<conf, chans, closed, cache, wvars, tvars, cvars, rvars, panicked, logs,
                   cancelled, call, lvars>>

UnitNext == CallWalkUrl \/ CallTest

UnitSpec == UnitInit /\ [][UnitNext]_vars

----------------------------------------------------------------------------
\* Single calls of Tester.Test against a result store filled by earlier
\* invocations

\* Entries earlier invocations have published.
StoredEntries ==
    {CacheEntry(ExtX, Live, ""), CacheEntry(ExtXHttp, Live, ""), CacheEntry(FragTop, Live, "")}

CachedInit == UnitInit /\ call.fn = "Test"

\* The consumer stores the entry of an earlier invocation, before the call
\* starts.
StoreResult ==
    /\ ~ret.returned
    /\ \E result \in StoredEntries :
          /\ ResultsData' = PutData(ResultsData, result)
          /\ ClaimedURLs' = PutClaimed(ClaimedURLs, result)
    /\ UNCHANGED <<conf, chans, closed, wvars, tvars, cvars, rvars, panicked, logs,
                   cancelled, unit, lvars>>

\* Test on call.requestData: the cache check on requestData.Path, then the
\* rest of Test.
CallTestWithCache ==
    IF HasResult(ResultsData, call.requestData.Path)
    THEN /\ call.fn = "Test" /\ ~ret.returned
         /\ ret' = [sends |-> <<>>, requests |-> <<>>, returned |-> TRUE]
         /\ UNCHANGED <<conf, chans, closed, cache, wvars, tvars, cvars, rvars, panicked,
                        logs, cancelled, call, lvars>>
    ELSE CallTest

CachedNext == StoreResult \/ CallTestWithCache

CachedSpec == CachedInit /\ [][CachedNext]_vars

----------------------------------------------------------------------------
\* The pipeline with ResultsMutex made visible: the consumer's loop body
\* between Lock and Unlock, and the scans of runNormalMode, which take no
\* lock

\* c.ResultsMutex.Lock() of the loop body; TryClaim and HasResult hold the
\* mutex only within one step of their worker, so it is free between steps.
ConsumerLock ==
    /\ Alive /\ cpc = "put"
    /\ cpc' = "locked"
    /\ UNCHANGED <<conf, cancelled, unit, lvars, chans, closed, cache, wvars, tvars, cheld, rvars,
                   panicked, logs>>

\* the two writes of the loop body and c.ResultsMutex.Unlock()
ConsumerStore ==
    /\ Alive /\ cpc = "locked"
    /\ ResultsData' = PutData(ResultsData, cheld)
    /\ ClaimedURLs' = PutClaimed(ClaimedURLs, cheld)
    /\ cheld' = NoEntry
    /\ cpc' = "recv"
    /\ UNCHANGED <<conf, cancelled, unit, lvars, chans, closed, wvars, tvars, rvars, panicked, logs>>

\* HasFailures and GetFailureCount range over c.ResultsData without taking
\* ResultsMutex.  While the consumer is inside its locked section the scan
\* races with the map write: it sees the map without or with the entry being
\* stored, or the runtime stops the process ("concurrent map iteration and
\* map write").
ScanFailures ==
    /\ Alive /\ pc = "report"
    /\ \/ /\ \E data \in {ResultsData} \cup
                       (IF cpc = "locked" THEN {PutData(ResultsData, cheld)} ELSE {}) :
                runErr' = IF HasFailures(data) THEN "link check failed" ELSE ""
          /\ pc' = "return"
          /\ UNCHANGED panicked
       \/ /\ cpc = "locked"
          /\ panicked' = TRUE
          /\ UNCHANGED <<pc, runErr>>
    /\ UNCHANGED <<conf, cancelled, unit, lvars, chans, closed, cache, wvars, tvars, cvars, idleObs, logs>>

\* TryClaim waits for the mutex while the consumer holds it.
WalkWithMutex(w) == cpc # "locked" /\ Walk(w)

\* HasResult waits for the mutex while the consumer holds it.
TesterTestWithMutex(t) == cpc # "locked" /\ TesterTest(t)

LockNext ==
    \/ \E w \in Walkers :
          \/ WalkerReceive(w) \/ WalkerExit(w) \/ WalkerEnter(w)
          \/ WalkWithMutex(w)
          \/ WalkerSend(w) \/ WalkerSendClosed(w) \/ WalkerReturn(w)
    \/ \E t \in Testers :
          \/ TesterReceive(t) \/ TesterExit(t) \/ TesterEnter(t)
          \/ TesterTestWithMutex(t)
          \/ TesterSend(t) \/ TesterSendClosed(t) \/ TesterReturn(t)
    \/ ConsumerReceive \/ ConsumerLock \/ ConsumerStore \/ ConsumerExit
    \/ RunNoTarget \/ RunStart \/ WaitAndClosePoll
    \/ CloseTest \/ CloseWalk \/ CloseResults \/ ScanFailures \/ RunReturn

LockSpec == Init /\ [][LockNext]_vars

----------------------------------------------------------------------------
\* Properties

Started(i) == i <= concurrency

\* WaitAndClose has returned.
WaitAndCloseReturned == pc \in {"report", "return"} \/ (pc = "returned" /\ target # EmptyURL)

AllChannels == {"walk", "test", "res"}

\* C1: for every URL at most one TryClaim over the whole run returns true,
\* and walkers issue at most one GET for it (one per claim won).
C1_AtMostOneClaimPerURL ==
    \A u \in DOMAIN claimWins \cup DOMAIN walkGets :
        /\ Count(claimWins, u) <= 1
        /\ Count(walkGets, u) <= Count(claimWins, u)

\* A walker has been refused a URL that another invocation claimed and fetched.
C1_Witness ==
    \E w \in Walkers :
        /\ wpc[w] = "refused"
        /\ Count(claimWins, wreq[w].Path) = 1
        /\ Count(walkGets, wreq[w].Path) = 1

\* C2: no URL is at the same time in the claimed-set and in the result map.
C2_ClaimedXorResolved == ClaimedURLs \cap DOMAIN ResultsData = {}

\* A claimed URL has been resolved by put while another URL is still claimed.
C2_Witness ==
    /\ \E u \in DOMAIN ResultsData : Count(claimWins, u) = 1
    /\ ClaimedURLs # {}

\* C3 as stated: an entry of the result map never changes once inserted.
C3_EntriesImmutable ==
    [][\A u \in DOMAIN ResultsData :
          u \in DOMAIN ResultsData' /\ ResultsData'[u] = ResultsData[u]]_vars

\* C3 amended: the map holds one entry per URL, under the entry's own URL, and
\* a put stores the entry that arrived, replacing the one the URL had; the
\* other entries stay as they are.
C3_LastPutWins ==
    /\ [](\A u \in DOMAIN ResultsData : ResultsData[u].URL = u)
    /\ [][cpc = "put" /\ cpc' = "recv" =>
            /\ DOMAIN ResultsData' = DOMAIN ResultsData \cup {cheld.URL}
            /\ ResultsData'[cheld.URL] = cheld
            /\ \A u \in DOMAIN ResultsData \ {cheld.URL} : ResultsData'[u] = ResultsData[u]]_vars

\* The consumer is about to put an entry for a URL whose stored entry differs.
C3_Witness ==
    /\ cpc = "put"
    /\ cheld.URL \in DOMAIN ResultsData
    /\ ResultsData[cheld.URL] # cheld

\* C4: when WaitAndClose has returned, no request is left in a queue or in the
\* hands of a worker that has not started on it, unless its URL is claimed or
\* resolved already.
C4_NoWorkLoss ==
    WaitAndCloseReturned =>
        LET handled(req) == Count(claimWins, req.Path) >= 1 \/ HasResult(ResultsData, req.Path)
        IN /\ \A i \in 1..Len(toWalkChan) : handled(toWalkChan[i])
           /\ \A i \in 1..Len(toTestChan) : handled(toTestChan[i])
           /\ \A w \in Walkers : wpc[w] \in {"received", "walk"} => handled(wreq[w])
           /\ \A t \in Testers : tpc[t] \in {"received", "test"} => handled(treq[t])

\* C5: WaitAndClose leaves its loop only on two idle observations in a row,
\* the second being the re-check after the 100 ms sleep.
C5_TwoConsecutiveIdle ==
    (pc \in {"closeTest", "closeWalk", "closeResults"} \/ WaitAndCloseReturned)
        => idleObs = <<TRUE, TRUE>>

\* WaitAndClose starts closing after a crawl that produced results.
C5_Witness == pc = "closeTest" /\ DOMAIN ResultsData # {}

\* C6: after WaitAndClose returns the three channels are closed and every
\* walker and tester goroutine has exited.
C6_ClosedAndWorkersExited ==
    WaitAndCloseReturned =>
        /\ closed = AllChannels
        /\ \A w \in Walkers : Started(w) => wpc[w] = "exited"
        /\ \A t \in Testers : Started(t) => tpc[t] = "exited"

\* C7: never are all walkers blocked sending on a full walk-queue (nothing
\* else receives from it, so such a state lasts forever).
C7_NoBackpressureDeadlock ==
    ~ /\ "walk" \notin closed
      /\ Len(toWalkChan) = QueueCap
      /\ \A w \in Walkers : Started(w) => wpc[w] = "send" /\ Head(wout[w]).ch = "walk"

\* C8: at shutdown (WaitAndClose has returned, no worker holds a request, the
\* consumer has drained the result channel) the claimed-set is empty.
C8_NoOrphanClaims ==
    ( /\ WaitAndCloseReturned
      /\ \A w \in Walkers : wpc[w] \in {"idle", "exited"}
      /\ \A t \in Testers : tpc[t] \in {"idle", "exited"}
      /\ resultsChan = <<>> /\ cpc # "put" )
        => ClaimedURLs = {}

\* C9: an entry recorded for a 403, 429 or 999 response has status Bot, and
\* a run whose only non-Live entries are such entries returns nil.
C9_BotClassification ==
    LET BotErrors == {HttpErrorText(403), HttpErrorText(429), HttpErrorText(999)}
    IN /\ \A u \in DOMAIN ResultsData :
             ResultsData[u].Error \in BotErrors => ResultsData[u].Status = Bot
       /\ ( /\ pc = "returned" /\ "res" \in closed
            /\ \A u \in DOMAIN ResultsData :
                  ResultsData[u].Status = Live \/ ResultsData[u].Error \in BotErrors )
             => runErr = ""

\* C10: after shutdown Run returns nil iff the result map holds no Dead and no
\* Timeout entry.
C10_ExitCode ==
    (pc = "returned" /\ "res" \in closed) =>
        (runErr = "" <=>
            \A u \in DOMAIN ResultsData : ResultsData[u].Status \notin {Dead, Timeout})

\* The entry a single call of Test sent.
SentEntry == ret.sends[1].entry

\* C11: a ping of an https URL U whose first request fails is followed by
\* exactly one request, to U with scheme http; if that succeeds the entry is
\* Live under the http URL, else it is under U with the first error.  Any
\* other URL gets exactly one request.  (Calls whose limiter wait was
\* cancelled are left out.)
C11_FallbackCorrectness ==
    ( /\ call.fn = "Test" /\ ret.returned
      /\ ~HasHashPrefix(call.requestData.Path)
      /\ call.first.err # "wait" /\ call.second.err # "wait" )
    => LET url == ResolvedURL(call.requestData)
           httpUrl == U("http", url.host, url.path, url.frag)
           firstErr == PingUrl(call.first)
       IN IF ParsedScheme(url) = "https" /\ ~firstErr.nil THEN
              /\ ret.requests = <<url, httpUrl>>
              /\ IF PingUrl(call.second).nil
                 THEN SentEntry = CacheEntry(httpUrl, Live, "")
                 ELSE /\ SentEntry.URL = url
                      /\ SentEntry.Error = firstErr.text
                      /\ SentEntry.Status \in {Dead, Timeout}
          ELSE ret.requests = <<url>>

\* A single call of Test on a fragment with a base page has returned.
FragmentCall ==
    /\ call.fn = "Test" /\ ret.returned
    /\ HasHashPrefix(call.requestData.Path) /\ call.requestData.BasePath # EmptyURL

\* GET of the base page returned a status below 400 and the body holds
\* id="F", id='F' or id=F.
FoundOnPage(F, resp) == resp.err = "" /\ resp.code < 400 /\ F \in resp.ids \cup resp.looseIds

C13_RateLimit ==
    rateLimitValue > 0 => \A h \in Hosts : sent[h] <= rateLimitValue + Burst

\* C14: every call of GetDomainLimiter for the same key returns the same
\* limiter, also when several callers miss at the same time.
C14_OneLimiterPerHost ==
    \A k \in DOMAIN returned : Cardinality(returned[k]) <= 1

\* C15: after a cancellation WaitAndClose is never left polling over a
\* queue whose workers have all exited on ctx.Done (nothing dequeues it any
\* more, so IsIdle stays false and Run never returns).
C15_NoPollingOverAbandonedQueue ==
    ~ /\ cancelled /\ pc \in {"poll", "recheck"}
      /\ \/ toWalkChan # <<>> /\ \A w \in Walkers : Started(w) => wpc[w] = "exited"
         \/ toTestChan # <<>> /\ \A t \in Testers : Started(t) => tpc[t] = "exited"

\* Walker w is in a send to the full walk-queue.
BlockedOnWalkQueue(w) ==
    wpc[w] = "send" /\ Head(wout[w]).ch = "walk" /\ Len(toWalkChan) = QueueCap

\* C16: once the context is cancelled no walker stays blocked in a send to
\* the full walk-queue with no goroutine left to receive from it (the other
\* walkers have exited or are blocked in the same send).
C16_SenderHonoursCancel ==
    ~ /\ cancelled
      /\ \E w \in Walkers : Started(w) /\ BlockedOnWalkQueue(w)
      /\ \A w \in Walkers : Started(w) => wpc[w] = "exited" \/ BlockedOnWalkQueue(w)

\* C17: a call whose limiter Wait was cancelled records no entry: walkUrl
\* before its GET, Test inside the first ping or the fallback ping.
C17_NoResultOnCancelledWait ==
    /\ ( call.fn = "walkUrl" /\ ret.returned /\ call.resp.err = "wait" )
          => ret.sends = <<>>
    /\ ( /\ call.fn = "Test" /\ ret.returned /\ ~HasHashPrefix(call.requestData.Path)
         /\ \/ call.first.err = "wait"
            \/ /\ ~PingUrl(call.first).nil
               /\ ParsedScheme(ResolvedURL(call.requestData)) = "https"
               /\ call.second.err = "wait" )
          => ret.sends = <<>>

\* A single call of walkUrl got a response (whatever its status).
WalkedPage == call.fn = "walkUrl" /\ ret.returned /\ call.resp.err = ""

\* C18: a page whose response has a status of 400 or more is recorded Dead
\* with an error naming the status, which makes the run fail; Live is
\* recorded only for a status below 400.
C18_ErrorStatusIsDead ==
    WalkedPage =>
        LET entry == ret.sends[1].entry
        IN /\ call.resp.code >= 400 =>
                /\ entry = CacheEntry(call.toTest.Path, Dead, HttpErrorText(call.resp.code))
                /\ HasFailures(PutData(<<>>, entry))
           /\ entry.Status = Live => call.resp.code < 400

\* The last path segment has no extension, or html/htm, or the path ends
\* in "/" or is empty.
HtmlLikely(u) ==
    \/ u.path = <<>>
    \/ u.path[Len(u.path)] = ""
    \/ SegExt(u.path[Len(u.path)]) \in {NoDot, "html", "htm"}

\* C19: only candidates that are HTML-likely and have no host or the seed's
\* host are put on the walk-queue; the others go to the test-queue.
C19_RoutingByExtension ==
    WalkedPage =>
        \A i \in 1..Len(ret.sends) :
            ret.sends[i].ch = "walk" =>
                /\ HtmlLikely(ret.sends[i].req.Path)
                /\ ret.sends[i].req.Path.host = target.host

\* C20: a candidate "#top" on a page P whose body holds id="top" gives a
\* Live entry under P + "#top" and no request on the test-queue.
C20_FragmentFoundByWalker ==
    ( /\ WalkedPage
      /\ \E i \in 1..Len(call.resp.links) : call.resp.links[i] = FragTop
      /\ "top" \in call.resp.ids )
    => LET P == call.toTest.Path
       IN /\ \E i \in 1..Len(ret.sends) :
                ret.sends[i] = ToResults(CacheEntry(U(P.scheme, P.host, P.path, "#top"), Live, ""))
          /\ \A i \in 1..Len(ret.sends) :
                ~(ret.sends[i].ch = "test" /\ ret.sends[i].req.Path = FragTop)

\* C21: a call of Test that starts when the store holds an entry under U
\* makes no request whose outcome it publishes under U.
C21_NoRecheck ==
    (call.fn = "Test" /\ ret.returned /\ ret.requests # <<>>)
    => \A i \in 1..Len(ret.sends) : ~HasResult(ResultsData, ret.sends[i].entry.URL)

\* The entries in the store, on the result channel, held by the consumer
\* between its receive and its put, and sent by a single call.
EntriesInStoreOrFlight ==
    {ResultsData[u] : u \in DOMAIN ResultsData}
        \cup {resultsChan[i] : i \in 1..Len(resultsChan)}
        \cup (IF cpc = "put" THEN {cheld} ELSE {})
        \cup {ret.sends[i].entry : i \in {j \in 1..Len(ret.sends) : ret.sends[j].ch = "res"}}

\* C22: every entry in the store or in flight on the result channel with
\* status Live has an empty error string.
C22_LiveHasNoError ==
    \A entry \in EntriesInStoreOrFlight : entry.Status = Live => entry.Error = ""

\* The store holds a Live entry and an entry with an error text, and a Live
\* entry is on the result channel.
C22_Witness ==
    /\ \E u \in DOMAIN ResultsData : ResultsData[u].Status = Live
    /\ \E u \in DOMAIN ResultsData : ResultsData[u].Error # ""
    /\ \E i \in 1..Len(resultsChan) : resultsChan[i].Status = Live

\* C23: no walker or tester ever sends on a closed channel (the send
\* panics).
C23_NoSendOnClosedChannel == ~panicked

\* C24: when WaitAndClose has returned and runNormalMode is about to compute
\* HasFailures, no entry is left on the result channel or held by the
\* consumer between its receive and its put.
C24_ResultsFlushed ==
    pc \in {"report", "return"} => resultsChan = <<>> /\ cpc # "put"

\* C25: the walk-queue is closed first, then the test-queue, then the result
\* channel: the test-queue is never closed while the walk-queue is open, and
\* the result channel never while a work queue is open.
C25_CloseOrder ==
    /\ "test" \in closed => "walk" \in closed
    /\ "res" \in closed => {"walk", "test"} \subseteq closed

\* C26: every request that goes out is the end of an Allow or Wait of the
\* goroutine that makes it, on the limiter GetDomainLimiter gave it.
C26_AcquireBeforeRequest ==
    [][(\E h \in Hosts : sent'[h] > sent[h])
          => \E c \in Callers : lpc[c] \in {"allow", "wait"} /\ lpc'[c] = "idle"]_vars

WalkUrlCall == call.fn = "walkUrl" /\ ret.returned /\ call.resp.err # "wait"

BannedPath(u) ==
    \E i \in 1..Len(u.path) :
        \/ u.path[i] = "cdn-cgi" /\ i < Len(u.path)
        \/ u.path[i] = "wp-admin" /\ i < Len(u.path)
        \/ u.path[i] = "wp-login.php"

\* C29: for a walk request whose path is banned the walker makes no GET,
\* sends nothing, and no entry for the path is ever published or stored.
C29_BannedDropped ==
    /\ \A w \in Walkers :
          BannedPath(wreq[w].Path) => wpc[w] # "send" /\ wout[w] = <<>>
    /\ \A u \in DOMAIN claimWins :
          BannedPath(u) =>
              /\ Count(walkGets, u) = 0
              /\ \A entry \in EntriesInStoreOrFlight : entry.URL # u

\* A walker took the request for /wp-admin/, claimed it and returned.
C29_Witness ==
    /\ Count(claimWins, PageAdmin) = 1
    /\ \A w \in Walkers : wreq[w].Path # PageAdmin
    /\ DOMAIN ResultsData # {}

\* The distinct candidate strings the patterns yield on a body: the plain
\* matches and the URLs of the srcset values.
CandidateStrings(links) ==
    {links[i] : i \in {j \in 1..Len(links) : ~IsSrcset(links[j])}}
        \cup UNION {{links[i].srcset[k] : k \in 1..Len(links[i].srcset)} :
                        i \in {j \in 1..Len(links) : IsSrcset(links[j])}}

\* C30: in one call of walkUrl every distinct candidate causes at most one
\* send: after the page's own entry there are no more sends than distinct
\* candidates.
C30_CandidateRoutedOnce ==
    (WalkUrlCall /\ call.resp.err = "")
        => Len(ret.sends) - 1 <= Cardinality(CandidateStrings(call.resp.links))

\* A body that yields the same candidate from a srcset and from another
\* pattern was walked.
C30_Witness ==
    /\ WalkUrlCall
    /\ call.resp.links = <<Srcset(<<RelJpgA, RelJpgB>>), RelJpgA>>
    /\ Len(ret.sends) = 3

\* C31: every request walkUrl puts on the walk-queue or the test-queue while
\* processing page P carries BasePath = P.
C31_BasePathIsReferrer ==
    WalkUrlCall =>
        \A i \in 1..Len(ret.sends) :
            ret.sends[i].ch \in {"walk", "test"}
                => ret.sends[i].req.BasePath = call.toTest.Path

\* C32: with a rate of 0 or less no caller ever has to wait for a permit;
\* with a rate above 0 a bucket never holds more than 5 tokens.
C32_NoThrottleWithoutRate ==
    /\ rateLimitValue <= 0 => \A c \in Callers : lpc[c] # "wait"
    /\ rateLimitValue > 0 => \A l \in DOMAIN tokens : tokens[l] \in 0..Burst

\* C33: the consumer takes the entries in the order they arrived on the
\* result channel, only its put changes the map or removes a claim, and a put
\* stores the entry it holds and removes that URL's claim in the same step; so
\* of several entries for one URL the one that arrived last is the one kept.
C33_ArrivalOrder ==
    [][/\ (cpc = "recv" /\ cpc' = "put" =>
              cheld' = Head(resultsChan) /\ resultsChan' = Tail(resultsChan))
       /\ (ResultsData' # ResultsData \/ ~(ClaimedURLs \subseteq ClaimedURLs') =>
              cpc = "put" /\ cpc' = "recv")
       /\ (cpc = "put" /\ cpc' = "recv" =>
              /\ ResultsData'[cheld.URL] = cheld
              /\ ClaimedURLs' = ClaimedURLs \ {cheld.URL})]_vars

\* The consumer holds an entry for a URL while a later, different entry for
\* the same URL waits behind another entry on the channel.
C33_Witness ==
    /\ cpc = "put"
    /\ Len(resultsChan) = 2
    /\ resultsChan[2].URL = cheld.URL /\ resultsChan[2] # cheld
    /\ resultsChan[1] # resultsChan[2]

\* C34: a URL leaves the claimed-set only in the put of an entry with that
\* URL; a refused TryClaim, the HasResult of a tester and the failure scan of
\* runNormalMode leave the claimed-set and the result map as they are.
C34_ClaimReleasedOnlyByPut ==
    [][/\ \A u \in ClaimedURLs \ ClaimedURLs' :
              cpc = "put" /\ cpc' = "recv" /\ cheld.URL = u
       /\ \A w \in Walkers :
              wpc[w] = "walk" /\ wpc'[w] = "refused" => UNCHANGED cache
       /\ \A t \in Testers :
              tpc[t] = "test" /\ tpc'[t] # "test" => UNCHANGED cache
       /\ (pc = "report" /\ pc' = "return" => UNCHANGED cache)]_vars

\* A walker has been refused a URL that another walker holds claimed, while a
\* second URL is claimed as well.
C34_Witness ==
    \E w \in Walkers :
        /\ wpc[w] = "refused"
        /\ wreq[w].Path \in ClaimedURLs
        /\ ClaimedURLs # {wreq[w].Path}

\* A single call of Test for a URL that is not a fragment has returned.
PingCall == call.fn = "Test" /\ ret.returned /\ ~HasHashPrefix(call.requestData.Path)

\* The request got an answer with a status below 400.
Succeeded(resp) == resp.err = "" /\ resp.code < 400

\* The first ping failed and went to an https URL, so the http URL is tried.
FallbackTried ==
    ~Succeeded(call.first) /\ ParsedScheme(ResolvedURL(call.requestData)) = "https"

APingSucceeded == Succeeded(call.first) \/ (FallbackTried /\ Succeeded(call.second))

\* The error PingUrlWithFallback returns, that of the first ping, is a
\* timeout.
OriginalTimeout == ~APingSucceeded /\ call.first.err = "timeout"

\* The answer that made the first ping fail is one of the bot statuses.
BotStatus == call.first.err = "" /\ call.first.code \in {403, 429, 999}

\* The https ping timed out and the http fallback failed in another way.
TimeoutThenOtherFailure ==
    /\ FallbackTried /\ call.first.err = "timeout"
    /\ ~Succeeded(call.second) /\ call.second.err # "timeout"

\* C35 as stated: Live iff a ping succeeded, Timeout iff the returned error
\* is a timeout, Dead for every other error that is not a bot status, and
\* Dead as well when the https ping timed out and the http fallback failed
\* with a different error.
C35_Classification ==
    PingCall =>
        /\ SentEntry.Status = Live <=> APingSucceeded
        /\ SentEntry.Status = Timeout <=> OriginalTimeout
        /\ (~APingSucceeded /\ ~OriginalTimeout /\ ~BotStatus) => SentEntry.Status = Dead
        /\ TimeoutThenOtherFailure => SentEntry.Status = Dead

\* C35 amended: Live iff a ping succeeded, Timeout iff no ping succeeded and
\* the first ping's error is a timeout, whatever the fallback's error was,
\* and Dead for every other error that is not a bot status.
C35_ClassifiedByOriginalError ==
    PingCall =>
        /\ SentEntry.Status = Live <=> APingSucceeded
        /\ SentEntry.Status = Timeout <=> OriginalTimeout
        /\ (~APingSucceeded /\ ~OriginalTimeout /\ ~BotStatus) => SentEntry.Status = Dead
        /\ TimeoutThenOtherFailure => SentEntry.Status = Timeout

\* The https ping timed out, the http fallback was refused, and the entry
\* sent is Timeout.
C35_Witness ==
    /\ PingCall /\ TimeoutThenOtherFailure
    /\ call.second.err = "refused"
    /\ SentEntry.Status = Timeout

\* C36: the failure scan of runNormalMode never reads the result map while
\* the consumer is inside the locked section of a put.
C36_ScanExcludesPut ==
    [][(pc = "report" /\ pc' = "return") => cpc # "locked"]_vars

\* C37: when Run has returned for an empty target, nothing was enqueued or
\* recorded, and every walker, every tester and the consumer goroutine has
\* ended.
C37_NoTargetLeavesNothingRunning ==
    (target = EmptyURL /\ pc = "returned") =>
        /\ runErr = "no target URL specified"
        /\ toWalkChan = <<>> /\ toTestChan = <<>> /\ resultsChan = <<>>
        /\ ResultsData = <<>> /\ ClaimedURLs = {}
        /\ \A w \in Walkers : w <= concurrency => wpc[w] = "exited"
        /\ \A t \in Testers : t <= concurrency => tpc[t] = "exited"
        /\ cpc = "exited"

\* The walker goroutines between the Add(1) of Walk and its return, and the
\* tester goroutines between the Add(1) of Test and its return.
InsideWalk == {w \in Walkers : wpc[w] \in {"walk", "send", "refused", "banned", "abandoned", "done"}}
InsideTest == {t \in Testers : tpc[t] \in {"test", "send", "cached", "done"}}

\* C38: the active-walker counter is the number of walker goroutines inside
\* Walk, the active-tester counter the number of tester goroutines inside
\* Test, and both lie between 0 and the number of workers; so every return
\* path gives its count back.
C38_CountersMatchWorkers ==
    /\ activeWalkers = Cardinality(InsideWalk)
    /\ activeTesters = Cardinality(InsideTest)
    /\ activeWalkers \in 0..concurrency
    /\ activeTesters \in 0..concurrency

\* A walker that won its claim is returning after its limiter was cancelled
\* and has not given its count back yet, while a tester is inside Test.
C38_Witness ==
    /\ \E w \in Walkers : wpc[w] = "abandoned"
    /\ activeWalkers = 1
    /\ Cardinality(DOMAIN claimWins) >= 1
    /\ activeTesters >= 1

====
